---- MODULE Spec2Model ----
(***************************************************************************)
(* Model of Upp::StateMachine (include/statemachine.h, src/statemachine.cpp):*)
(* an event-driven finite-state machine with asynchronous enter/exit        *)
(* handlers, guards, hooks, a history stack and GoBack().                   *)
(*                                                                          *)
(* The C++ call stack is explicit (variable stack, top first): the machine  *)
(* hands control to host closures (guards, hooks, handlers) that receive a   *)
(* reference to the machine and may call back into it, and a handler may     *)
(* keep its completion continuation and have the host's event loop invoke    *)
(* it later (variable pending).                                              *)
(***************************************************************************)
EXTENDS Naturals, Sequences, FiniteSets, TLC

\* ---------------------------------------------------------------- bounds
\* Most machine calls (Start, TriggerEvent, TryTransition, GoBack) nested on
\* the call stack at once.
MaxNest == 2
\* Most DoTransition pipelines that exist at once.
MaxRuns == 2
\* Longest history the host lets grow before it stops issuing forward calls.
MaxHist == 3

\* ------------------------------------------------------------- registry
\* An empty String, and an empty Function<> (a closure is named by a string).
Null == ""

\* What the host registered before Start(): A and B have both handlers,
\* C has none; go_x leads to a state that is not registered, and one
\* transition is registered under the event name GoBack() uses.
states ==
    << [id |-> "A", OnEnter |-> "enterA", OnExit |-> "exitA"],
       [id |-> "B", OnEnter |-> "enterB", OnExit |-> "exitB"],
       [id |-> "C", OnEnter |-> Null,     OnExit |-> Null] >>

NoTransition ==
    [event |-> Null, from |-> Null, to |-> Null,
     Guard |-> Null, OnBefore |-> Null, OnAfter |-> Null]

transitions ==
    << [event |-> "go_b", from |-> "A", to |-> "B",
        Guard |-> "guard_b", OnBefore |-> "before_b", OnAfter |-> "after_b"],
       [event |-> "go_c", from |-> "B", to |-> "C",
        Guard |-> Null, OnBefore |-> Null, OnAfter |-> Null],
       [event |-> "go_c", from |-> "A", to |-> "C",
        Guard |-> Null, OnBefore |-> Null, OnAfter |-> Null],
       [event |-> "go_a", from |-> "C", to |-> "A",
        Guard |-> Null, OnBefore |-> Null, OnAfter |-> Null],
       [event |-> "go_x", from |-> "B", to |-> "X",
        Guard |-> Null, OnBefore |-> Null, OnAfter |-> Null],
       [event |-> "__back", from |-> "B", to |-> "A",
        Guard |-> "guard_back", OnBefore |-> "before_back",
        OnAfter |-> "after_back"] >>

initial == "A"

WhenTransitionStarted == "started_hook"

WhenTransitionFinished == "finished_hook"

\* The event names the host triggers.
Events == {"go_b", "go_c", "go_a", "go_x"}

\* The descriptors the host passes to TryTransition: one whose from need not
\* be the current state, one with the key of a registered transition.
TryDescriptors ==
    { [event |-> "jump", from |-> "B", to |-> "C",
       Guard |-> Null, OnBefore |-> Null, OnAfter |-> "after_jump"],
      [event |-> "go_b", from |-> "A", to |-> "B",
       Guard |-> "guard_try", OnBefore |-> "before_try", OnAfter |-> "after_try"] }

\* ------------------------------------------------------------- helpers
Min(S) == CHOOSE x \in S : \A y \in S : x <= y

Front(s) == SubSeq(s, 1, Len(s) - 1)

NoState == [id |-> Null, OnEnter |-> Null, OnExit |-> Null]

\* FindState: linear scan, first match, or "not found".
FindState(id) ==
    LET I == {i \in DOMAIN states : states[i].id = id}
    IN  IF I = {} THEN NoState ELSE states[Min(I)]

\* FindTransition comparing the event only.
FindTransitionByEvent(from, ev) ==
    LET I == {i \in DOMAIN transitions : transitions[i].event = ev}
    IN  IF I = {} THEN NoTransition ELSE transitions[Min(I)]

\* FindTransition: linear scan, first match, or "not found".
FindTransition(from, ev) ==
    LET I == {i \in DOMAIN transitions :
                 transitions[i].from = from /\ transitions[i].event = ev}
    IN  IF I = {} THEN NoTransition ELSE transitions[Min(I)]

TransitionRecord(f, t, e) == [from |-> f, to |-> t, event |-> e]

\* ---------------------------------------------------------------- state
VARIABLES
    current,            \* String current
    transitionHistory,  \* Vector<One<TransitionRecord>>, top is the last element
    transitioning,      \* bool transitioning
    started,            \* Start() has been called
    runs,               \* the DoTransition pipelines in flight (closures' captures)
    pending,            \* continuations a handler kept for the host's event loop
    stack,              \* the C++ call stack, top first
    last                \* what the last step did (observation only)

vars == <<current, transitionHistory, transitioning, started, runs, pending,
          stack, last>>

machine == <<current, transitionHistory, transitioning>>

GetCurrent == current

IsTransitioning == transitioning

CanGoBack == Len(transitionHistory) > 1

RunIds == 1 .. MaxRuns

NoRun ==
    [live |-> FALSE, from |-> Null, to |-> Null, event |-> Null,
     record |-> FALSE, kind |-> Null, phase |-> Null, clears |-> 0,
     cur0 |-> Null, hist0 |-> <<>>, quiet |-> FALSE]

Live == {r \in RunIds : runs[r].live}

\* One frame of the call stack: the function, the closure it runs (id), the
\* place it has reached (pc), the pipeline it belongs to (run), its
\* Transition argument (t) and its bool argument or the bool it was returned
\* (ok). A function whose last act is a call is replaced on the stack by the
\* function it calls.
Frame(fn, id, pc, run, t, ok) ==
    [fn |-> fn, id |-> id, pc |-> pc, run |-> run, t |-> t, ok |-> ok]

Top == Head(stack)

ApiFns == {"Start", "TriggerEvent", "TryTransition", "GoBack"}

HookFns == {"WhenTransitionStarted", "OnBefore", "WhenTransitionFinished", "OnAfter"}

HandlerFns == {"OnExit", "OnEnter"}

CallbackFns == {"Guard"} \cup HookFns \cup HandlerFns

\* What a step leaves in last: the step, the pipeline it belongs to and the
\* bool a call returned.
Ev(type, r, result) ==
    [type |-> type, kind |-> r.kind, from |-> r.from, to |-> r.to,
     event |-> r.event, record |-> r.record, phase |-> r.phase,
     clears |-> r.clears,
     cur0 |-> r.cur0, hist0 |-> r.hist0, quiet |-> r.quiet, result |-> result]

Note(type) == Ev(type, NoRun, FALSE)

Of(kind) == [NoRun EXCEPT !.kind = kind]

Init ==
    /\ current = Null
    /\ transitionHistory = <<>>
    /\ transitioning = FALSE
    /\ started = FALSE
    /\ runs = [r \in RunIds |-> NoRun]
    /\ pending = {}
    /\ stack = <<>>
    /\ last = Note("Init")

\* ------------------------------------------------- the host and its closures
\* A call of the machine: the function and its Transition argument (for
\* TriggerEvent only the event is given).
Calls ==
    {[fn |-> "TriggerEvent", t |-> [NoTransition EXCEPT !.event = e]] : e \in Events}
    \cup {[fn |-> "TryTransition", t |-> d] : d \in TryDescriptors}
    \cup {[fn |-> "GoBack", t |-> NoTransition]}

\* Calls on the stack that have not reached DoTransition yet.
Unstarted ==
    Cardinality({i \in DOMAIN stack :
                    stack[i].fn \in ApiFns /\ stack[i].pc \in {"entry", "guard"}})

NumApi == Cardinality({i \in DOMAIN stack : stack[i].fn \in ApiFns})

\* The bounds of the model, on the calls the host and its closures issue.
MayCall(c) ==
    /\ NumApi < MaxNest
    /\ Cardinality(Live) + Unstarted < MaxRuns
    /\ c.fn = "GoBack"
         \/ Len(transitionHistory) + Cardinality(Live) + Unstarted < MaxHist

CallFrame(c) == Frame(c.fn, Null, "entry", 0, c.t, FALSE)

Replace(f) == <<f>> \o Tail(stack)

Invoke(f, caller) == <<f, caller>> \o Tail(stack)

\* Start() without the bootstrap record.
StartWithoutRecord ==
    /\ ~started
    /\ stack = <<>>
    /\ FindState(initial) # NoState
    /\ started' = TRUE
    /\ current' = initial
    /\ stack' = IF FindState(initial).OnEnter # Null
                THEN <<Frame("OnEnter", FindState(initial).OnEnter, "run", 0,
                             NoTransition, FALSE),
                       Frame("Start", Null, "called", 0, NoTransition, FALSE)>>
                ELSE <<>>
    /\ last' = Note("Start")
    /\ UNCHANGED <<transitionHistory, transitioning, runs, pending>>

\* Start() setting transitioning for the initial state's OnEnter.
StartSetsTransitioning ==
    /\ ~started
    /\ stack = <<>>
    /\ FindState(initial) # NoState
    /\ started' = TRUE
    /\ current' = initial
    /\ transitionHistory' =
           Append(transitionHistory, TransitionRecord(Null, initial, "__start"))
    /\ transitioning' = (FindState(initial).OnEnter # Null)
    /\ stack' = IF FindState(initial).OnEnter # Null
                THEN <<Frame("OnEnter", FindState(initial).OnEnter, "run", 0,
                             NoTransition, FALSE),
                       Frame("Start", Null, "called", 0, NoTransition, FALSE)>>
                ELSE <<>>
    /\ last' = Note("Start")
    /\ UNCHANGED <<runs, pending>>

\* Start(): current = initial, the bootstrap record, and the initial state's
\* OnEnter with a continuation that does nothing (run 0).
Start ==
    /\ ~started
    /\ stack = <<>>
    /\ FindState(initial) # NoState
    /\ started' = TRUE
    /\ current' = initial
    /\ transitionHistory' =
           Append(transitionHistory, TransitionRecord(Null, initial, "__start"))
    /\ stack' = IF FindState(initial).OnEnter # Null
                THEN <<Frame("OnEnter", FindState(initial).OnEnter, "run", 0,
                             NoTransition, FALSE),
                       Frame("Start", Null, "called", 0, NoTransition, FALSE)>>
                ELSE <<>>
    /\ last' = Note("Start")
    /\ UNCHANGED <<transitioning, runs, pending>>

\* The host calls the machine from its event loop.
HostCall(c) ==
    /\ started
    /\ stack = <<>>
    /\ MayCall(c)
    /\ stack' = <<CallFrame(c)>>
    /\ last' = Note("HostCall")
    /\ UNCHANGED <<machine, started, runs, pending>>

\* A hook or handler calls the machine through the reference it got.
NestedCall(c) ==
    /\ stack # <<>>
    /\ Top.fn \in HookFns \cup HandlerFns
    /\ MayCall(c)
    /\ stack' = <<CallFrame(c)>> \o stack
    /\ last' = Note("NestedCall")
    /\ UNCHANGED <<machine, started, runs, pending>>

\* A guard calls the machine through ctx.machine.
GuardCall(c) ==
    /\ stack # <<>>
    /\ Top.fn = "Guard"
    /\ MayCall(c)
    /\ stack' = <<CallFrame(c)>> \o stack
    /\ last' = Note("GuardCall")
    /\ UNCHANGED <<machine, started, runs, pending>>

\* The frame of the continuation a handler was given: on_exit_done for
\* OnExit, the lambda of DoTransition's enter phase for OnEnter.
Continuation(fn, r, b) ==
    Frame(IF fn = "OnExit" THEN "on_exit_done" ELSE "enter_result",
          Null, "entry", r, NoTransition, b)

\* A handler invokes done(b) as its last act, as every handler of main.cpp
\* does. Start()'s continuation [](bool){} does nothing.
HandlerDone(b) ==
    /\ stack # <<>>
    /\ Top.fn \in HandlerFns
    /\ stack' = IF Top.run = 0
                THEN Tail(stack)
                ELSE Replace(Continuation(Top.fn, Top.run, b))
    /\ last' = Note("Done")
    /\ UNCHANGED <<machine, started, runs, pending>>

\* A guard returns its verdict to TriggerEvent or TryTransition.
GuardReturn(b) ==
    /\ stack # <<>>
    /\ Top.fn = "Guard"
    /\ stack' = <<[stack[2] EXCEPT !.ok = b]>> \o Tail(Tail(stack))
    /\ last' = Note("Return")
    /\ UNCHANGED <<machine, started, runs, pending>>

\* A hook returns.
CallbackReturn ==
    /\ stack # <<>>
    /\ Top.fn \in HookFns
    /\ stack' = Tail(stack)
    /\ last' = Note("Return")
    /\ UNCHANGED <<machine, started, runs, pending>>

\* A handler returns and keeps done for later.
HandlerDefer ==
    /\ stack # <<>>
    /\ Top.fn \in HandlerFns
    /\ pending' = pending \cup {[run |-> Top.run, fn |-> Top.fn]}
    /\ stack' = Tail(stack)
    /\ last' = Note("Deferred")
    /\ UNCHANGED <<machine, started, runs>>

\* Start() returns.
StartReturn ==
    /\ stack # <<>>
    /\ Top.fn = "Start"
    /\ stack' = Tail(stack)
    /\ last' = Note("Return")
    /\ UNCHANGED <<machine, started, runs, pending>>

\* The host's event loop invokes a continuation a handler kept.
Deliver(p, b) ==
    /\ stack = <<>>
    /\ p \in pending
    /\ pending' = pending \ {p}
    /\ stack' = IF p.run = 0 THEN <<>> ELSE <<Continuation(p.fn, p.run, b)>>
    /\ last' = Note("Deliver")
    /\ UNCHANGED <<machine, started, runs>>

\* ------------------------------------------------------------ the machine
\* A step that only moves the call stack.
Only(stk, ev) ==
    /\ stack' = stk
    /\ last' = ev
    /\ UNCHANGED <<machine, runs>>

\* No other pipeline exists and no caller below is waiting for its guard.
Quiet ==
    /\ Live = {}
    /\ \A i \in DOMAIN stack : i > 1 => stack[i].pc # "guard"

\* What the closures of one DoTransition capture (ctx, record, on_done), the
\* phase the pipeline is in, how often it has cleared transitioning, and for
\* a pipeline that starts quiet the current state and history it found.
NewRun(t, record, kind) ==
    [live |-> TRUE, from |-> t.from, to |-> t.to, event |-> t.event,
     record |-> record, kind |-> kind, phase |-> "exit", clears |-> 0,
     cur0 |-> IF Quiet THEN current ELSE Null,
     hist0 |-> IF Quiet THEN transitionHistory ELSE <<>>,
     quiet |-> Quiet]

\* DoTransition without the lookup test.
MissingStateNever(t) == FALSE
\* The lookup testing the source state only.
MissingFromState(t) == FindState(t.from) = NoState
\* if (!fromState || !toState)
MissingState(t) == FindState(t.from) = NoState \/ FindState(t.to) = NoState

\* DoTransition, from its call to transitioning = true: the two FindState
\* lookups, on_done(false) when one fails (GoBack's on_done then does nothing).
DoTransition(t, record, kind) ==
    IF MissingState(t)
    THEN Only(Replace([Top EXCEPT !.pc = "called"]),
              Ev("MissingState", [NewRun(t, record, kind) EXCEPT !.live = FALSE], FALSE))
    ELSE LET r == Min(RunIds \ Live)
         IN  /\ runs' = [runs EXCEPT ![r] = NewRun(t, record, kind)]
             /\ transitioning' = TRUE
             /\ stack' = Invoke(Frame("DoTransition", Null, "begin", r, t, FALSE),
                                [Top EXCEPT !.pc = "called"])
             /\ last' = Ev("Begin", [NewRun(t, record, kind) EXCEPT !.cur0 = current],
                           FALSE)
             /\ UNCHANGED <<current, transitionHistory>>

\* if (transitioning) return;
\* TriggerEvent without its reentrancy test.
TriggerEventNeverBusy == FALSE
TriggerEventBusy == transitioning

\* if (t->Guard && !t->Guard(ctx)) return;
\* The guard's verdict ignored.
GuardNeverRejects(verdict) == FALSE
GuardRejects(verdict) == ~verdict

TriggerEvent ==
    /\ stack # <<>>
    /\ Top.fn = "TriggerEvent"
    /\ LET t == FindTransition(current, Top.t.event)
       IN  CASE Top.pc = "entry" ->
                  IF TriggerEventBusy
                  THEN Only(Tail(stack), Ev("Dropped", Of("trigger"), FALSE))
                  ELSE IF t = NoTransition
                  THEN Only(Tail(stack), Ev("NoMatch", Of("trigger"), FALSE))
                  ELSE IF t.Guard # Null
                  THEN Only(Invoke(Frame("Guard", t.Guard, "run", 0, NoTransition, FALSE),
                                   [Top EXCEPT !.pc = "guard", !.t = t]),
                            Note("Invoke"))
                  ELSE DoTransition(t, TRUE, "trigger")
             [] Top.pc = "guard" ->
                  IF GuardRejects(Top.ok)
                  THEN Only(Tail(stack), Ev("Rejected", Of("trigger"), FALSE))
                  ELSE DoTransition(Top.t, TRUE, "trigger")
             [] Top.pc = "called" ->
                  Only(Tail(stack), Note("Return"))
    /\ UNCHANGED <<started, pending>>

\* TryTransition without its reentrancy test.
TryTransitionNeverBusy == FALSE
\* if (transitioning) return false;
TryTransitionBusy == transitioning

TryTransition ==
    /\ stack # <<>>
    /\ Top.fn = "TryTransition"
    /\ CASE Top.pc = "entry" ->
              IF TryTransitionBusy
              THEN Only(Tail(stack), Ev("Dropped", Of("try"), FALSE))
              ELSE IF Top.t.Guard # Null
              THEN Only(Invoke(Frame("Guard", Top.t.Guard, "run", 0, NoTransition, FALSE),
                               [Top EXCEPT !.pc = "guard"]),
                        Note("Invoke"))
              ELSE DoTransition(Top.t, TRUE, "try")
         [] Top.pc = "guard" ->
              IF GuardRejects(Top.ok)
              THEN Only(Tail(stack), Ev("Rejected", Of("try"), FALSE))
              ELSE DoTransition(Top.t, TRUE, "try")
         [] Top.pc = "called" ->
              Only(Tail(stack), Ev("Return", Of("try"), TRUE))
    /\ UNCHANGED <<started, pending>>

\* back_transition.to = last_step->from, last_step = transitionHistory.Top()
\* GoBack reading the record below the top.
BackTargetBelow == transitionHistory[Len(transitionHistory) - 1].from
\* GoBack aiming at the top record's to instead of its from.
BackTargetTo == transitionHistory[Len(transitionHistory)].to
BackTarget == transitionHistory[Len(transitionHistory)].from

BackTransition ==
    [event |-> "__back", from |-> current, to |-> BackTarget,
     Guard |-> Null, OnBefore |-> Null, OnAfter |-> Null]

\* if (!CanGoBack() || IsTransitioning()) return;
GoBackRefused == ~CanGoBack \/ IsTransitioning

GoBack ==
    /\ stack # <<>>
    /\ Top.fn = "GoBack"
    /\ CASE Top.pc = "entry" ->
              IF GoBackRefused
              THEN Only(Tail(stack), Ev("Dropped", Of("back"), FALSE))
              ELSE DoTransition(BackTransition, FALSE, "back")
         [] Top.pc = "called" ->
              Only(Tail(stack), Note("Return"))
    /\ UNCHANGED <<started, pending>>

\* DoTransition after transitioning = true: WhenTransitionStarted, the
\* transition's OnBefore, then the exit phase: the source state's OnExit with
\* on_exit_done, or on_exit_done(true) when it has none.
DoTransitionStep ==
    /\ stack # <<>>
    /\ Top.fn = "DoTransition"
    /\ LET r == Top.run
           fromState == FindState(runs[r].from)
       IN  CASE Top.pc = "begin" ->
                  /\ stack' = IF WhenTransitionStarted # Null
                              THEN Invoke(Frame("WhenTransitionStarted",
                                                WhenTransitionStarted, "run", r,
                                                NoTransition, FALSE),
                                          [Top EXCEPT !.pc = "started"])
                              ELSE Replace([Top EXCEPT !.pc = "started"])
                  /\ last' = Note("Invoke")
             [] Top.pc = "started" ->
                  /\ stack' = IF Top.t.OnBefore # Null
                              THEN Invoke(Frame("OnBefore", Top.t.OnBefore, "run", r,
                                                NoTransition, FALSE),
                                          [Top EXCEPT !.pc = "before"])
                              ELSE Replace([Top EXCEPT !.pc = "before"])
                  /\ last' = Note("Invoke")
             [] Top.pc = "before" ->
                  /\ stack' = IF fromState.OnExit # Null
                              THEN Replace(Frame("OnExit", fromState.OnExit, "run", r,
                                                 NoTransition, FALSE))
                              ELSE Replace(Continuation("OnExit", r, TRUE))
                  /\ last' = Note("Exit")
    /\ UNCHANGED <<machine, started, runs, pending>>

\* on_exit_done: if (success)
\* on_exit_done ignoring the result of OnExit.
ExitAlwaysProceeds(success) == TRUE
\* on_exit_done entering the destination when OnExit failed.
ExitProceedsOnFailure(success) == ~success
ExitProceeds(success) == success

\* on_exit_done(success): on success the destination's OnEnter (or, when it
\* has none, current = ctx.toState and on_enter_done(true)); on failure
\* transitioning = false and on_enter_done(false).
OnExitDone ==
    /\ stack # <<>>
    /\ Top.fn = "on_exit_done"
    /\ LET r == Top.run
           toState == FindState(runs[r].to)
       IN  IF ExitProceeds(Top.ok)
           THEN IF toState.OnEnter # Null
                THEN /\ stack' = Replace(Frame("OnEnter", toState.OnEnter, "run", r,
                                               NoTransition, FALSE))
                     /\ runs' = [runs EXCEPT ![r].phase = "enter"]
                     /\ last' = Ev("Enter", runs[r], FALSE)
                     /\ UNCHANGED machine
                ELSE /\ current' = runs[r].to
                     /\ stack' = Replace(Frame("on_enter_done", Null, "entry", r,
                                               NoTransition, TRUE))
                     /\ runs' = [runs EXCEPT ![r].phase = "enter"]
                     /\ last' = Ev("Entered", runs[r], FALSE)
                     /\ UNCHANGED <<transitionHistory, transitioning>>
           ELSE /\ transitioning' = FALSE
                /\ stack' = Replace(Frame("on_enter_done", Null, "entry", r,
                                          NoTransition, FALSE))
                /\ runs' = [runs EXCEPT ![r].clears = @ + 1]
                /\ last' = Ev("ExitFailed", runs[r], FALSE)
                /\ UNCHANGED <<current, transitionHistory>>
    /\ UNCHANGED <<started, pending>>

\* the continuation given to OnEnter: if (enter_success) current = ctx.toState;
\* The OnEnter continuation assigning current whatever the result.
EnterAlwaysAdvances(enter_success) == TRUE
EnterAdvances(enter_success) == enter_success

\* The OnEnter continuation returning without calling on_enter_done.
EnterResultDropsDone ==
    /\ stack # <<>>
    /\ Top.fn = "enter_result"
    /\ current' = IF EnterAdvances(Top.ok) THEN runs[Top.run].to ELSE current
    /\ stack' = Tail(stack)
    /\ last' = Ev(IF Top.ok THEN "Entered" ELSE "EnterFailed", runs[Top.run], FALSE)
    /\ UNCHANGED <<transitionHistory, transitioning, started, runs, pending>>

\* The continuation DoTransition gives to the destination's OnEnter.
EnterResult ==
    /\ stack # <<>>
    /\ Top.fn = "enter_result"
    /\ current' = IF EnterAdvances(Top.ok) THEN runs[Top.run].to ELSE current
    /\ stack' = Replace(Frame("on_enter_done", Null, "entry", Top.run,
                              NoTransition, Top.ok))
    /\ last' = Ev(IF Top.ok THEN "Entered" ELSE "EnterFailed", runs[Top.run], FALSE)
    /\ UNCHANGED <<transitionHistory, transitioning, started, runs, pending>>

\* Finalize's loop: pop while the top's to is not ctx.fromState.
RECURSIVE Prune(_, _)
Prune(h, from) ==
    IF h # <<>> /\ h[Len(h)].to # from THEN Prune(Front(h), from) ELSE h

\* Finalize(ctx, record)
Finalize(h, r, record) ==
    IF record
    THEN Append(Prune(h, r.from), TransitionRecord(r.from, r.to, r.event))
    ELSE h

\* GoBack's on_done: if (success) transitionHistory.Pop();
\* GoBack's on_done popping the history whatever the result.
BackAlwaysPops(success) == TRUE
BackPops(success) == success

\* on_done(success): GoBack's lambda for a back-transition, empty otherwise.
OnDone(h, r, success) ==
    IF r.kind = "back" /\ BackPops(success) THEN Front(h) ELSE h

\* on_enter_done(success): on success WhenTransitionFinished, the OnAfter of
\* FindTransition(ctx.fromState, ctx.event) and Finalize; then, on every
\* path, transitioning = false and on_done(success).
OnEnterDone ==
    /\ stack # <<>>
    /\ Top.fn = "on_enter_done"
    /\ LET r == Top.run
           tp == FindTransition(runs[r].from, runs[r].event)
           end == [runs[r] EXCEPT !.clears = @ + 1]
       IN  CASE Top.pc = "entry" /\ Top.ok ->
                  /\ stack' = IF WhenTransitionFinished # Null
                              THEN Invoke(Frame("WhenTransitionFinished",
                                                WhenTransitionFinished, "run", r,
                                                NoTransition, FALSE),
                                          [Top EXCEPT !.pc = "finished"])
                              ELSE Replace([Top EXCEPT !.pc = "finished"])
                  /\ last' = Note("Invoke")
                  /\ UNCHANGED <<machine, runs>>
             [] Top.pc = "finished" ->
                  /\ stack' = IF tp # NoTransition /\ tp.OnAfter # Null
                              THEN Invoke(Frame("OnAfter", tp.OnAfter, "run", r,
                                                NoTransition, FALSE),
                                          [Top EXCEPT !.pc = "after"])
                              ELSE Replace([Top EXCEPT !.pc = "after"])
                  /\ last' = Note("Invoke")
                  /\ UNCHANGED <<machine, runs>>
             [] Top.pc = "after" ->
                  /\ transitionHistory' =
                         OnDone(Finalize(transitionHistory, runs[r], runs[r].record),
                                runs[r], TRUE)
                  /\ transitioning' = FALSE
                  /\ runs' = [runs EXCEPT ![r] = NoRun]
                  /\ stack' = Tail(stack)
                  /\ last' = Ev("Committed", end, FALSE)
                  /\ UNCHANGED current
             [] Top.pc = "entry" /\ ~Top.ok ->
                  /\ transitionHistory' = OnDone(transitionHistory, runs[r], FALSE)
                  /\ transitioning' = FALSE
                  /\ runs' = [runs EXCEPT ![r] = NoRun]
                  /\ stack' = Tail(stack)
                  /\ last' = Ev("Aborted", end, FALSE)
                  /\ UNCHANGED current
    /\ UNCHANGED <<started, pending>>

Next ==
    \/ Start
    \/ StartReturn
    \/ \E c \in Calls : HostCall(c)
    \/ \E c \in Calls : NestedCall(c)
    \/ \E c \in Calls : GuardCall(c)
    \/ \E b \in BOOLEAN : HandlerDone(b)
    \/ \E b \in BOOLEAN : GuardReturn(b)
    \/ CallbackReturn
    \/ HandlerDefer
    \/ \E p \in pending, b \in BOOLEAN : Deliver(p, b)
    \/ TriggerEvent
    \/ TryTransition
    \/ GoBack
    \/ DoTransitionStep
    \/ OnExitDone
    \/ EnterResult
    \/ OnEnterDone

Spec == Init /\ [][Next]_vars

\* ---------------------------------------------- a host that lets runs finish
\* The continuations a handler can keep.
Kept == [run : 0 .. MaxRuns, fn : HandlerFns]

\* What the host of the terminating runs calls: it triggers the events of the
\* registered transitions and passes the descriptor with a guard.
LiveCall(c) ==
    /\ c.fn = "TryTransition" => c.t.event = "go_b"
    /\ c.fn = "TriggerEvent" => c.t.event \in {"go_b", "go_c", "go_x"}

\* What its closures call: a guard, hook or handler triggers one event, as
\* the OnAfter hook of the re-entrancy test does.
InnerCall(c) == c.fn = "TriggerEvent" /\ c.t.event = "go_b"

\* The closure on top of the stack has just been invoked: it has not called
\* the machine yet.
JustInvoked == last.type \in {"Invoke", "Exit", "Enter", "Start"}

\* The steps of Next, with closures that call the machine at most once and
\* then return.
LiveNext ==
    \/ Start
    \/ StartReturn
    \/ \E c \in Calls : LiveCall(c) /\ HostCall(c)
    \/ \E c \in Calls : InnerCall(c) /\ JustInvoked /\ NestedCall(c)
    \/ \E c \in Calls : InnerCall(c) /\ JustInvoked /\ GuardCall(c)
    \/ \E b \in BOOLEAN : HandlerDone(b)
    \/ \E b \in BOOLEAN : GuardReturn(b)
    \/ CallbackReturn
    \/ HandlerDefer
    \/ \E p \in pending, b \in BOOLEAN : Deliver(p, b)
    \/ TriggerEvent
    \/ TryTransition
    \/ GoBack
    \/ DoTransitionStep
    \/ OnExitDone
    \/ EnterResult
    \/ OnEnterDone

\* The machine's own code runs on; every guard and hook returns; every
\* handler calls its continuation or returns keeping it; and the host's
\* event loop, which runs between the host's calls, invokes every
\* continuation that was kept.
Fairness ==
    /\ WF_vars(StartReturn \/ TriggerEvent \/ TryTransition \/ GoBack
                 \/ DoTransitionStep \/ OnExitDone \/ EnterResult \/ OnEnterDone)
    /\ WF_vars(CallbackReturn)
    /\ WF_vars(\E b \in BOOLEAN : GuardReturn(b))
    /\ WF_vars((\E b \in BOOLEAN : HandlerDone(b)) \/ HandlerDefer)
    /\ \A p \in Kept : SF_vars(\E b \in BOOLEAN : Deliver(p, b))

LiveSpec == Init /\ [][LiveNext]_vars /\ Fairness


\* ------------------------------------------------------------------ claims
AtEntry(fn) == stack # <<>> /\ Top.fn = fn /\ Top.pc = "entry"

\* The step returns to the caller: nothing is invoked, started or kept.
ReturnsAtOnce ==
    /\ stack' = Tail(stack)
    /\ UNCHANGED <<machine, runs, pending>>

\* No closure is running: at most the host's own call is on the stack.
HostLevel == Len(stack) <= 1

Bootstrap == TransitionRecord(Null, initial, "__start")

\* h is one path from the bootstrap record to cur.
IsLinear(h, cur) ==
    /\ h # <<>>
    /\ h[1] = Bootstrap
    /\ \A i \in 2 .. Len(h) : h[i].from = h[i - 1].to
    /\ h[Len(h)].to = cur

\* C1: a TriggerEvent call made while transitioning is true, by the host or
\* from inside a closure, returns at once: it starts no pipeline, invokes no
\* guard, hook or handler, leaves current, the history and transitioning as
\* they are, and leaves nothing behind that could replay the event.
C1_TriggerDroppedWhileTransitioning ==
    [][AtEntry("TriggerEvent") /\ transitioning => ReturnsAtOnce]_vars

\* A handler of the pipeline in flight has triggered an event and is back in
\* control, the event dropped.
C1_Witness ==
    /\ last.type = "Dropped"
    /\ last.kind = "trigger"
    /\ transitioning
    /\ stack # <<>>
    /\ Top.fn \in HandlerFns
    /\ Top.run # 0

\* C2: at most one pipeline is in flight at any time.
C2_AtMostOneRun == Cardinality(Live) <= 1

AtExitFailure == stack # <<>> /\ Top.fn = "on_exit_done" /\ ~Top.ok

AtAbort(phase) ==
    /\ AtEntry("on_enter_done")
    /\ ~Top.ok
    /\ runs[Top.run].phase = phase

\* The pipeline of the top frame ends here and invokes nothing more; a
\* pipeline that started quiet leaves current and the history as it found them.
EndsUnchanged ==
    /\ UNCHANGED <<current, transitionHistory>>
    /\ ~transitioning'
    /\ stack' = Tail(stack)
    /\ ~runs'[Top.run].live
    /\ runs[Top.run].quiet =>
          /\ current' = runs[Top.run].cur0
          /\ transitionHistory' = runs[Top.run].hist0

\* C3: when OnExit reports failure the transition is aborted: current and the
\* history stay as they are, transitioning becomes false, and neither the
\* destination's OnEnter nor WhenTransitionFinished nor OnAfter is invoked.
C3_ExitFailureAborts ==
    [][/\ AtExitFailure =>
            /\ UNCHANGED <<current, transitionHistory>>
            /\ ~transitioning'
            /\ stack' = Replace(Frame("on_enter_done", Null, "entry", Top.run,
                                      NoTransition, FALSE))
       /\ AtAbort("exit") => EndsUnchanged]_vars

C3_Witness ==
    /\ last.type = "Aborted"
    /\ last.phase = "exit"
    /\ last.kind = "trigger"
    /\ current = last.from
    /\ ~transitioning

C5_EnterFailureEndsInDestination ==
    (last.type = "Aborted" /\ last.phase = "enter" /\ last.kind = "trigger"
       /\ HostLevel)
        => current = last.to

\* C6: when the guard of the matching transition returns false TriggerEvent
\* returns at once (current, history and transitioning unchanged, no handler
\* invoked); a triggered transition that commits ends with current at its to
\* state; and every TriggerEvent that finds a guarded transition evaluates
\* the guard anew.
C6_GuardDecides ==
    [][/\ (stack # <<>> /\ Top.fn = "TriggerEvent" /\ Top.pc = "guard" /\ ~Top.ok)
            => ReturnsAtOnce
       /\ (AtEntry("TriggerEvent") /\ ~transitioning
             /\ FindTransition(current, Top.t.event).Guard # Null)
            => /\ Head(stack').fn = "Guard"
               /\ Head(stack').id = FindTransition(current, Top.t.event).Guard
               /\ UNCHANGED <<machine, runs>>
       /\ (stack # <<>> /\ Top.fn = "on_enter_done" /\ Top.pc = "after"
             /\ runs[Top.run].kind = "trigger")
            => current' = runs[Top.run].to]_vars

\* C7: a successful recorded transition leaves the history exactly one
\* deeper than the call found it, and CanGoBack() true.
C7_DepthPlusOne ==
    (last.type = "Committed" /\ last.record /\ last.quiet /\ HostLevel)
        => /\ Len(transitionHistory) = Len(last.hist0) + 1
           /\ CanGoBack

\* C8: GoBack() at depth <= 1 returns at once; a back-transition that starts
\* on a quiet machine whose history is one path from the bootstrap record to
\* current and commits ends in the state held before the last recorded
\* transition, with the top record popped and nothing else changed, so that
\* at depth 1 the machine is in the initial state and cannot go back.
C8_GoBackUndoesLastHop ==
    [][/\ (AtEntry("GoBack") /\ Len(transitionHistory) <= 1) => ReturnsAtOnce
       /\ (stack # <<>> /\ Top.fn = "on_enter_done" /\ Top.pc = "after"
             /\ runs[Top.run].kind = "back" /\ runs[Top.run].quiet
             /\ IsLinear(runs[Top.run].hist0, runs[Top.run].cur0))
            => LET h0 == runs[Top.run].hist0
               IN  /\ transitionHistory' = Front(h0)
                   /\ current' = h0[Len(h0) - 1].to
                   /\ current' = h0[Len(h0)].from
                   /\ IsLinear(transitionHistory', current')
                   /\ Len(h0) = 2 => (current' = initial /\ ~CanGoBack')]_vars

\* Two hops were recorded and the second is undone.
C8_Witness ==
    /\ last.type = "Committed"
    /\ last.kind = "back"
    /\ last.quiet
    /\ Len(last.hist0) = 3
    /\ IsLinear(last.hist0, last.cur0)
    /\ Len(transitionHistory) = 2

\* C9: whenever the machine is not transitioning the history is one path
\* from the bootstrap record to current.
C9_HistoryIsLinear ==
    (started /\ ~transitioning /\ HostLevel)
        => IsLinear(transitionHistory, current)

\* C10: a back-transition that fails leaves current and the history as they
\* are (no pop, the same GoBack target) and transitioning false; started on a
\* quiet machine it leaves CanGoBack() true.
C10_FailedGoBackKeepsHistory ==
    [][(AtEntry("on_enter_done") /\ ~Top.ok /\ runs[Top.run].kind = "back")
          => /\ EndsUnchanged
             /\ CanGoBack' = CanGoBack
             /\ runs[Top.run].quiet =>
                   (CanGoBack' /\ BackTarget' = runs[Top.run].to)]_vars

C10_Witness ==
    /\ last.type = "Aborted"
    /\ last.kind = "back"
    /\ last.phase = "enter"
    /\ CanGoBack
    /\ current = last.from
    /\ BackTarget = last.to


\* C11: Start() sets current to the initial state, leaves transitioning
\* false and makes the history exactly the bootstrap record, so that
\* CanGoBack() is false; the initial state's OnEnter, its continuation and
\* the return of Start() change none of it.
C11_StartPostcondition ==
    [][/\ (~started /\ started') =>
            /\ current' = initial
            /\ FindState(current') # NoState
            /\ ~transitioning'
            /\ transitionHistory' = <<Bootstrap>>
            /\ ~CanGoBack'
       /\ (stack # <<>> /\ Top.run = 0 /\ Top.fn \in {"OnEnter", "Start"}
             /\ stack' = Tail(stack))
            => UNCHANGED machine]_vars

\* Start() has returned, its handler having run, and nothing else was called.
C11_Witness ==
    /\ started
    /\ stack = <<>>
    /\ pending = {}
    /\ last.type = "Return"
    /\ last.kind = Null
    /\ current = initial
    /\ ~transitioning
    /\ transitionHistory = <<Bootstrap>>
    /\ ~CanGoBack

Registered(from, ev) ==
    \E i \in DOMAIN transitions :
        transitions[i].from = from /\ transitions[i].event = ev

\* C12: TriggerEvent(e) on a machine that is not transitioning and has no
\* transition registered for (current, e) returns at once: current, the
\* history and transitioning are unchanged and no guard, hook or handler is
\* invoked, also when e is registered from another state.
C12_NoMatchIsNoOp ==
    [][(AtEntry("TriggerEvent") /\ ~transitioning
          /\ ~Registered(current, Top.t.event))
         => ReturnsAtOnce]_vars

\* In A an event was triggered that is registered from B or C only (every
\* event the host triggers is registered from some state).
C12_Witness ==
    /\ last.type = "NoMatch"
    /\ current = "A"
    /\ \A e \in Events : \E i \in DOMAIN transitions : transitions[i].event = e
    /\ \E e \in Events : ~Registered("A", e)
    /\ transitionHistory = <<Bootstrap>>
    /\ ~transitioning

AtTry(pc) == stack # <<>> /\ Top.fn = "TryTransition" /\ Top.pc = pc

\* TryTransition has called DoTransition: its frame waits for the call or
\* has it behind it.
ExecutorInvoked ==
    /\ Len(stack') >= Len(stack)
    /\ stack'[Len(stack') - Len(stack) + 1] = [Top EXCEPT !.pc = "called"]
    /\ SubSeq(stack', Len(stack') - Len(stack) + 2, Len(stack')) = Tail(stack)

\* C13: TryTransition returns false, changing nothing and invoking nothing,
\* when transitioning is true or when the descriptor's guard returns false;
\* otherwise it calls DoTransition and returns true, whatever becomes of the
\* run.
C13_TryTransitionResult ==
    [][/\ (AtTry("entry") /\ transitioning) =>
            (ReturnsAtOnce /\ ~last'.result /\ last'.kind = "try")
       /\ (AtTry("guard") /\ ~Top.ok) =>
            (ReturnsAtOnce /\ ~last'.result /\ last'.kind = "try")
       /\ (AtTry("entry") /\ ~transitioning /\ Top.t.Guard # Null) =>
            /\ Head(stack') = Frame("Guard", Top.t.Guard, "run", 0, NoTransition, FALSE)
            /\ UNCHANGED <<machine, runs, pending>>
       /\ (AtTry("entry") /\ ~transitioning /\ Top.t.Guard = Null) => ExecutorInvoked
       /\ (AtTry("guard") /\ Top.ok) => ExecutorInvoked
       /\ AtTry("called") =>
            /\ stack' = Tail(stack)
            /\ last'.result
            /\ last'.kind = "try"
            /\ UNCHANGED <<machine, runs, pending>>]_vars

\* TryTransition returned true for a run that had failed by then.
C13_Witness ==
    /\ last.type = "Return"
    /\ last.kind = "try"
    /\ last.result
    /\ stack = <<>>
    /\ pending = {}
    /\ Live = {}
    /\ current = initial
    /\ transitionHistory = <<Bootstrap>>


\* C14: a DoTransition call for a transition whose from or to state is not
\* registered returns to its caller at once: current, the history and
\* transitioning are unchanged (transitioning is false when no other run
\* exists), no hook or handler is invoked, no run begins; every run that
\* does begin has both states registered.
C14_MissingStateAborts ==
    [][/\ last'.type = "MissingState" =>
            /\ FindState(last'.from) = NoState \/ FindState(last'.to) = NoState
            /\ UNCHANGED <<machine, runs, pending>>
            /\ stack' = Replace([Top EXCEPT !.pc = "called"])
            /\ Top.fn \in ApiFns
            /\ last'.quiet => ~transitioning'
       /\ last'.type = "Begin" =>
            /\ FindState(last'.from) # NoState
            /\ FindState(last'.to) # NoState
       /\ \A r \in Live :
            /\ FindState(runs[r].from) # NoState
            /\ FindState(runs[r].to) # NoState]_vars

\* In B the host triggered go_x, whose to state X is not registered.
C14_Witness ==
    /\ last.type = "MissingState"
    /\ last.event = "go_x"
    /\ FindState(last.to) = NoState
    /\ current = "B"
    /\ ~transitioning
    /\ Live = {}
    /\ Len(stack) = 1
    /\ Top.pc = "called"


\* A handler of a transition keeps its continuation and this step does not
\* deliver any.
HandlerSilent ==
    /\ \E p \in pending : p.run # 0
    /\ pending \subseteq pending'

\* C15: while a handler of an accepted transition withholds its
\* continuation, transitioning stays true and no call changes current or the
\* history.
C15_StuckForever ==
    [][HandlerSilent => (transitioning' /\ UNCHANGED <<current, transitionHistory>>)]_vars


\* C16: once Start() has been called the history is never empty, and
\* CanGoBack() is true exactly when it holds more than one record.
C16_HistoryNeverEmpty ==
    started =>
        /\ Len(transitionHistory) >= 1
        /\ CanGoBack <=> Len(transitionHistory) > 1

\* WhenTransitionFinished has just been invoked for the pipeline r, which
\* the host started.
FinishedFires(r) ==
    /\ stack # <<>>
    /\ Top.fn = "WhenTransitionFinished"
    /\ Top.run = r
    /\ last.type = "Invoke"
    /\ Len(stack) <= 3

\* C17: WhenTransitionFinished fires only for a run whose exit and enter
\* succeeded and only after its commit: current is the run's to state and
\* the history holds the run's effect, the new record on top for a recorded
\* transition, the old top popped for a back-transition.
C17_FinishedAfterCommit ==
    \A r \in RunIds :
        (FinishedFires(r) /\ runs[r].quiet) =>
            /\ runs[r].phase = "enter"
            /\ current = runs[r].to
            /\ runs[r].record =>
                  /\ transitionHistory # <<>>
                  /\ transitionHistory[Len(transitionHistory)] =
                        TransitionRecord(runs[r].from, runs[r].to, runs[r].event)
                  /\ transitionHistory # runs[r].hist0
            /\ runs[r].kind = "back" =>
                  transitionHistory = Front(runs[r].hist0)


BackCalled ==
    /\ last.type \in {"Begin", "MissingState"}
    /\ last.kind = "back"
    /\ last.event = "__back"
    /\ Len(transitionHistory) > 1
    /\ Len(stack) <= 2

\* C19 as stated: the back-transition's destination is the from field of
\* the history record immediately below the top record.
C19_TargetIsFromBelowTop ==
    BackCalled => last.to = transitionHistory[Len(transitionHistory) - 1].from

\* C19 amended: the back-transition's destination is the from field of the
\* top history record, which in a history that is one path to current is
\* the to field of the record immediately below the top.
C19_TargetIsTopFrom ==
    BackCalled =>
        /\ last.to = transitionHistory[Len(transitionHistory)].from
        /\ last.from = current
        /\ IsLinear(transitionHistory, current) =>
              last.to = transitionHistory[Len(transitionHistory) - 1].to

\* GoBack() from C after A -> B -> C: the destination is B, not A.
C19_Witness ==
    /\ BackCalled
    /\ last.type = "Begin"
    /\ IsLinear(transitionHistory, current)
    /\ Len(transitionHistory) = 3
    /\ last.to = transitionHistory[2].to
    /\ last.to # transitionHistory[2].from

\* The hook on top of the stack was invoked by a back-transition.
BackFires(fn) ==
    /\ stack # <<>>
    /\ Top.fn = fn
    /\ Top.run # 0
    /\ runs[Top.run].kind = "back"

\* C20: a back-transition evaluates no guard and fires no OnBefore and no
\* OnAfter, whatever is registered, and never appends a record: a committed
\* back-transition only pops the top record.
C20_BackBypassesHooks ==
    [][/\ (stack # <<>> /\ Top.fn = "GoBack" /\ Len(stack') > Len(stack)) =>
            Head(stack').fn = "DoTransition"
       /\ ~BackFires("OnBefore")'
       /\ ~BackFires("OnAfter")'
       /\ (stack # <<>> /\ Top.fn = "on_enter_done" /\ Top.pc = "after"
             /\ runs[Top.run].kind = "back")
            => transitionHistory' = Front(transitionHistory)]_vars


\* The top frame is fn at pc.
At(fn, pc) == stack # <<>> /\ Top.fn = fn /\ Top.pc = pc

\* This step invokes the callback fn of a pipeline.
Invoked(fn) ==
    /\ stack' # <<>>
    /\ Head(stack').fn = fn
    /\ Head(stack').run # 0
    /\ Len(stack') >= Len(stack)

\* This step invokes the continuation fn (on_exit_done, the enter result,
\* on_enter_done) of a pipeline.
Continues(fn) ==
    /\ stack' # <<>>
    /\ Head(stack').fn = fn
    /\ Head(stack').pc = "entry"
    /\ stack = <<>> \/ Top.fn # fn

\* The handler fn of the pipeline that continues here has completed: it calls
\* its continuation now, or the event loop delivers the one it kept.
Completed(fn) ==
    \/ stack # <<>> /\ Top.fn = fn /\ Top.run = Head(stack').run
    \/ stack = <<>> /\ [run |-> Head(stack').run, fn |-> fn] \in pending \ pending'

\* C21: an accepted transition sets transitioning before any hook runs, then
\* invokes WhenTransitionStarted, the transition's OnBefore, the source
\* state's OnExit, after OnExit has completed with success the destination's
\* OnEnter, and after OnEnter has completed with success
\* WhenTransitionFinished and then OnAfter, in this order and no other.
C21_CallbackOrder ==
    [][/\ last'.type = "Begin" =>
            /\ transitioning'
            /\ Head(stack').fn = "DoTransition"
            /\ Head(stack').pc = "begin"
            /\ runs'[Head(stack').run].phase = "exit"
       /\ At("DoTransition", "begin") =>
            /\ Invoked("WhenTransitionStarted")
            /\ stack'[2] = [Top EXCEPT !.pc = "started"]
       /\ Invoked("WhenTransitionStarted") =>
            (At("DoTransition", "begin") /\ Top.run = Head(stack').run)
       /\ At("DoTransition", "started") =>
            IF Top.t.OnBefore # Null
            THEN /\ Invoked("OnBefore")
                 /\ Head(stack').id = Top.t.OnBefore
                 /\ stack'[2] = [Top EXCEPT !.pc = "before"]
            ELSE stack' = Replace([Top EXCEPT !.pc = "before"])
       /\ Invoked("OnBefore") =>
            (At("DoTransition", "started") /\ Top.run = Head(stack').run)
       /\ At("DoTransition", "before") =>
            IF FindState(Top.t.from).OnExit # Null
            THEN Invoked("OnExit") /\ Head(stack').id = FindState(Top.t.from).OnExit
            ELSE Continues("on_exit_done") /\ Head(stack').ok
       /\ Invoked("OnExit") =>
            (At("DoTransition", "before") /\ Top.run = Head(stack').run)
       /\ Continues("on_exit_done") =>
            (At("DoTransition", "before") \/ Completed("OnExit"))
       /\ Invoked("OnEnter") =>
            /\ At("on_exit_done", "entry")
            /\ Top.ok
            /\ Top.run = Head(stack').run
            /\ Head(stack').id = FindState(runs[Top.run].to).OnEnter
       /\ Continues("enter_result") => Completed("OnEnter")
       /\ Continues("on_enter_done") =>
            \/ At("enter_result", "entry") /\ Head(stack').ok = Top.ok
            \/ /\ At("on_exit_done", "entry")
               /\ Head(stack').ok = Top.ok
               /\ Top.ok => FindState(runs[Top.run].to).OnEnter = Null
       /\ Invoked("WhenTransitionFinished") =>
            (At("on_enter_done", "entry") /\ Top.ok /\ Top.run = Head(stack').run)
       /\ (At("on_enter_done", "entry") /\ Top.ok) =>
            Invoked("WhenTransitionFinished")
       /\ Invoked("OnAfter") =>
            (At("on_enter_done", "finished") /\ Top.run = Head(stack').run)]_vars

\* OnAfter runs for go_b from A to B, a transition with every callback,
\* whose OnEnter completed after a delay.
C21_Witness ==
    /\ Len(stack) = 2
    /\ Top.fn = "OnAfter"
    /\ stack[2].fn = "on_enter_done"
    /\ runs[Top.run].event = "go_b"
    /\ runs[Top.run].to = "B"
    /\ FindState("A").OnExit # Null
    /\ FindState("B").OnEnter # Null
    /\ transitioning


\* C22: a pipeline that reaches a terminal path (commit, exit failure, enter
\* failure) has cleared transitioning, and has cleared it exactly once.
C22_ClearedExactlyOnce ==
    (last.type \in {"Committed", "Aborted"} /\ HostLevel)
        => (~transitioning /\ last.clears = 1)


\* WhenTransitionFinished or OnAfter of a pipeline is running.
InAfterHook ==
    /\ stack # <<>>
    /\ Top.fn \in {"WhenTransitionFinished", "OnAfter"}
    /\ Top.run # 0

\* C23: transitioning is true while WhenTransitionFinished and OnAfter run,
\* so a TriggerEvent, TryTransition or GoBack issued from inside either hook
\* returns at once.
C23_BusyInAfterHooks ==
    [][/\ InAfterHook => transitioning
       /\ (stack # <<>> /\ Top.fn \in {"TriggerEvent", "TryTransition", "GoBack"}
             /\ Top.pc = "entry" /\ Len(stack) > 1
             /\ stack[2].fn \in {"WhenTransitionFinished", "OnAfter"})
            => ReturnsAtOnce]_vars


\* The descriptor the host passed to TryTransition for the pipeline r.
DescriptorOf(r) ==
    CHOOSE d \in TryDescriptors :
        d.event = runs[r].event /\ d.from = runs[r].from /\ d.to = runs[r].to

\* This step fires the hook fn of the closure id when there is one, and no
\* such hook otherwise.
FiresOwn(fn, id) ==
    IF id # Null
    THEN Invoked(fn) /\ Head(stack').id = id
    ELSE ~Invoked(fn)

\* The pipeline of the top frame was started by a TryTransition call of the
\* host, from the current state, with no other pipeline in flight.
TryRun ==
    /\ runs[Top.run].kind = "try"
    /\ runs[Top.run].quiet
    /\ runs[Top.run].cur0 = runs[Top.run].from
    /\ Len(stack) <= 2

\* C24: a transition started by TryTransition(descriptor) fires the
\* descriptor's own OnBefore and, on success, the descriptor's own OnAfter,
\* whatever is registered under the same (from, event).
C24_DescriptorHooksFire ==
    [][/\ (At("DoTransition", "started") /\ TryRun) =>
            FiresOwn("OnBefore", DescriptorOf(Top.run).OnBefore)
       /\ (At("on_enter_done", "finished") /\ TryRun) =>
            FiresOwn("OnAfter", DescriptorOf(Top.run).OnAfter)]_vars


\* The initial state's OnEnter, invoked by Start(), has not called its
\* continuation yet: it is running, or it kept the continuation.
InitialEnterOutstanding ==
    \/ [run |-> 0, fn |-> "OnEnter"] \in pending
    \/ \E i \in DOMAIN stack : stack[i].fn = "OnEnter" /\ stack[i].run = 0

\* C25: Start() does not set transitioning; while the initial state's
\* OnEnter has not called its continuation, TriggerEvent, TryTransition and
\* GoBack are accepted as usual; and the result of that OnEnter, whenever it
\* comes, changes neither current nor the history nor transitioning.
C25_StartNotGated ==
    [][/\ (~started /\ started') => (InitialEnterOutstanding' /\ ~transitioning')
       /\ (InitialEnterOutstanding /\ ~transitioning /\ stack # <<>>
             /\ Top.fn \in {"TriggerEvent", "TryTransition", "GoBack"}
             /\ Top.pc = "entry")
            => \/ last'.type \in {"Begin", "Invoke", "MissingState"}
               \/ last'.type = "NoMatch" /\ ~Registered(current, Top.t.event)
               \/ last'.type = "Dropped" /\ Top.fn = "GoBack" /\ ~CanGoBack
       /\ (InitialEnterOutstanding /\ ~InitialEnterOutstanding') =>
            /\ UNCHANGED <<machine, runs>>
            /\ stack' = IF stack = <<>> THEN <<>> ELSE Tail(stack)]_vars

\* The initial state's OnEnter kept its continuation, the machine moved on
\* to another state meanwhile, and the continuation has just been invoked.
C25_Witness ==
    /\ last.type = "Deliver"
    /\ stack = <<>>
    /\ ~InitialEnterOutstanding
    /\ current # initial
    /\ Len(transitionHistory) > 1
    /\ ~transitioning
    /\ Live = {}


\* TriggerEvent or TryTransition is at pc.
AtCall(pc) ==
    /\ stack # <<>>
    /\ Top.fn \in {"TriggerEvent", "TryTransition"}
    /\ Top.pc = pc

\* This step invokes a guard.
GuardInvoked ==
    /\ stack' # <<>>
    /\ Head(stack').fn = "Guard"
    /\ Len(stack') > Len(stack)

\* C26: a TriggerEvent or TryTransition call evaluates the transition's guard
\* exactly once, on entry, while transitioning is false and before
\* WhenTransitionStarted and OnBefore; when the guard rejects, the call
\* returns and neither hook fires.
C26_GuardOnceBeforeHooks ==
    [][/\ GuardInvoked =>
            /\ AtCall("entry")
            /\ ~transitioning
            /\ Head(stack').id =
                  IF Top.fn = "TriggerEvent"
                  THEN FindTransition(current, Top.t.event).Guard
                  ELSE Top.t.Guard
            /\ stack'[2].fn = Top.fn
            /\ stack'[2].pc = "guard"
            /\ UNCHANGED <<machine, runs, pending>>
       /\ (AtCall("entry") /\ ~transitioning
             /\ (IF Top.fn = "TriggerEvent"
                 THEN FindTransition(current, Top.t.event).Guard
                 ELSE Top.t.Guard) # Null)
            => GuardInvoked
       /\ (AtCall("guard") /\ ~Top.ok) => ReturnsAtOnce
       /\ (AtCall("guard") /\ Top.ok) => last'.type \in {"Begin", "MissingState"}
       /\ (last'.type = "Begin" /\ last'.kind \in {"trigger", "try"}) =>
            /\ \/ AtCall("guard") /\ Top.ok
               \/ /\ AtCall("entry")
                  /\ Top.fn = "TriggerEvent"
                  /\ FindTransition(current, Top.t.event).Guard = Null
               \/ /\ AtCall("entry")
                  /\ Top.fn = "TryTransition"
                  /\ Top.t.Guard = Null
            /\ \A i \in DOMAIN stack' :
                  stack'[i].run = Head(stack').run => stack'[i].fn = "DoTransition"
       /\ (Invoked("WhenTransitionStarted") \/ Invoked("OnBefore")) =>
            (stack # <<>> /\ Top.fn = "DoTransition")]_vars

\* The guard of go_b rejected the host's call: the machine is as Start()
\* left it.
C26_Witness ==
    /\ last.type = "Rejected"
    /\ stack = <<>>
    /\ Live = {}
    /\ pending = {}
    /\ ~transitioning
    /\ current = initial
    /\ transitionHistory = <<Bootstrap>>


\* C27: whenever a call of the host begins a pipeline, the transition's from
\* state is the current state.
C27_RunStartsFromCurrent ==
    (last.type = "Begin" /\ Len(stack) <= 2) => last.from = current


\* C28: when every handler that is invoked calls its continuation, at once
\* or later through the event loop, every pipeline that begins reaches a
\* terminal path and transitioning becomes false again.
C28_TransitionsTerminate ==
    /\ \A r \in RunIds : runs[r].live ~> ~runs[r].live
    /\ transitioning ~> ~transitioning

\* A pipeline whose handler had kept its continuation committed from the
\* event loop, and nothing is left in flight.
C28_Witness ==
    /\ last.type = "Committed"
    /\ last.kind = "trigger"
    /\ stack = <<>>
    /\ pending = {}
    /\ Live = {}
    /\ ~transitioning
    /\ current = last.to

====
